---- MODULE Spec2Model ----
(***************************************************************************)
(* Verification model of the pea-fan score aggregation and leaderboard     *)
(* engine: the relational Score Store (schema, ranked views, recalc        *)
(* functions), the leaderboard paging client, and the TTL cache of valid   *)
(* tenant names.                                                           *)
(***************************************************************************)
EXTENDS Integers, Sequences, FiniteSets, TLC

(***************************************************************************)
(* Bounds of the model.                                                    *)
(***************************************************************************)
MaxCalls == 2        \* recordMention calls begun in one behaviour
MaxClock == 1        \* the store's clock (now()) runs over 0..MaxClock

Ids == {"u1", "u2", "u3"}        \* chatter / channel ids (varchar(16))
HotIds == {"u1", "u2"}           \* the ids the concurrent sessions contend on
Txs == {"t1", "t2"}              \* concurrent database sessions
Pairs == Ids \X Ids
Points == {1, 2}                 \* points of one mention ("typically 1")

VARIABLES
    chatter,        \* table chatter: id -> [total, created_at, private]
    channel,        \* table channel: id -> [channel_total, created_at]
    score,          \* table score: <<chatter_id, channel_id>> -> [score, created_at]
    score_event,    \* table score_event, in insertion order
    clock,          \* the database clock
    tx,             \* per session: the recordMention transaction in progress
    ncalls,         \* recordMention calls begun so far
    applied,        \* history: per pair, the points of the committed calls
    hist,           \* history: facts about the run the properties refer to
    req,            \* the fetchLeaderboard call in progress
    walk,           \* a caller reading the pages 1..total_pages one after another
    cache_data,     \* Cache._data: the cached set of valid keys
    lastRefresh,    \* Cache._lastRefresh: null, or the time of the last refresh
    now,            \* Date.now()
    call,           \* per caller: the exists() / refresh() call in progress
    lastGood,       \* history: the set the source delivered to the refresh that wrote last
    owrites,        \* history: refreshes that overlapped another one and changed the set
    hx,             \* the batched profile lookup in progress (helixGetIdsFromLogins / fetchBatchedImages)
    hxlog,          \* history: the requests that lookup has sent to the profile service
    redis,          \* the key-value cache: the redact flags, the prev_helix_fetch flags, the images
    qry,            \* per caller: the RedisClientPool.getLeaderboard query in progress
    mig,            \* the legacy migrator: its position, its redis keys, its history
    entryRows,      \* the leaderboard rows on screen: their sub-scores and what was rendered
    logger          \* ClientLogger: the length of its buffer and its flush() calls

storeVars == <<chatter, channel, score, score_event, clock, tx, ncalls, applied, hist>>
pageVars == <<req, walk>>
cacheVars == <<cache_data, lastRefresh, now, call, lastGood, owrites>>
helixVars == <<hx, hxlog>>
enrichVars == <<redis, qry>>
migVars == <<mig>>
rowsVars == <<entryRows>>
loggerVars == <<logger>>
vars == <<storeVars, pageVars, cacheVars, helixVars, enrichVars, migVars, rowsVars, loggerVars>>

\* what the actions of one component leave alone
nonStoreVars == <<pageVars, cacheVars, helixVars, enrichVars, migVars, rowsVars, loggerVars>>
nonPageVars == <<cacheVars, helixVars, enrichVars, migVars, rowsVars, loggerVars>>
nonCacheVars == <<storeVars, pageVars, helixVars, enrichVars, migVars, rowsVars, loggerVars>>
nonHelixVars == <<storeVars, pageVars, cacheVars, enrichVars, migVars, rowsVars, loggerVars>>
nonEnrichVars == <<storeVars, pageVars, cacheVars, helixVars, migVars, rowsVars, loggerVars>>
nonMigVars == <<pageVars, cacheVars, helixVars, enrichVars, rowsVars, loggerVars>>
nonRowsVars == <<storeVars, pageVars, cacheVars, helixVars, enrichVars, migVars, loggerVars>>
nonLoggerVars == <<storeVars, pageVars, cacheVars, helixVars, enrichVars, migVars, rowsVars>>

(***************************************************************************)
(* Helpers on finite functions.                                            *)
(***************************************************************************)
Empty == <<>>

Has(f, k) == k \in DOMAIN f

\* f with the entries of w written over it
Overlay(f, w) == [k \in (DOMAIN f) \cup (DOMAIN w) |-> IF k \in DOMAIN w THEN w[k] ELSE f[k]]

Put(f, k, v) == Overlay(f, [x \in {k} |-> v])

\* the sum of f[k] over the keys k in S
RECURSIVE SumFn(_, _)
SumFn(f, S) ==
    IF S = {} THEN 0
    ELSE LET x == CHOOSE y \in S : TRUE IN f[x] + SumFn(f, S \ {x})

\* the sum of the points of the events of s that P selects
RECURSIVE SumPoints(_, _, _)
SumPoints(s, cs, hs) ==
    IF s = <<>> THEN 0
    ELSE (IF Head(s).chatter_id \in cs /\ Head(s).channel_id \in hs THEN Head(s).points ELSE 0)
         + SumPoints(Tail(s), cs, hs)

(***************************************************************************)
(* Schema: the rows an INSERT creates from the column defaults.            *)
(***************************************************************************)
NewChatterRow(ts) == [total |-> 0, created_at |-> ts, private |-> FALSE]

NewChannelRow(ts) == [channel_total |-> 0, created_at |-> ts]

\* a score column without its DEFAULT 0
NewScoreRowOne(ts) == [score |-> 1, created_at |-> ts]

NewScoreRow(ts) == [score |-> 0, created_at |-> ts]

\* an event row that records one point whatever the mention earned
NewScoreEventOnePoint(c, h, p, ts) ==
    [chatter_id |-> c, channel_id |-> h, points |-> 1, earned_at |-> ts]

NewScoreEvent(c, h, p, ts) ==
    [chatter_id |-> c, channel_id |-> h, points |-> p, earned_at |-> ts]

(***************************************************************************)
(* A transaction's write set, invisible to the other sessions until it     *)
(* commits.                                                                *)
(***************************************************************************)
\* a score table whose key also names the writer of the row
ScoreKeyPerWriter(c, h, by) == <<c, h, by>>

\* PRIMARY KEY(chatter_id, channel_id), the conflict target of every upsert
\* of a score row, whoever writes it
ScoreKey(c, h, by) == <<c, h>>

NoWrites == [chatter |-> Empty, channel |-> Empty, score |-> Empty, events |-> <<>>]

IdleTx ==
    [pc |-> "idle", c |-> "u1", h |-> "u1", p |-> 1, now |-> 0, ws |-> NoWrites, conc |-> FALSE,
     by |-> "t1"]

\* what session t reads: the committed rows under its own writes
ViewChatter(r) == Overlay(chatter, r.ws.chatter)
ViewChannel(r) == Overlay(channel, r.ws.channel)
ViewScore(r) == Overlay(score, r.ws.score)

\* a failure part-way leaving the statements already run in place
RollbackKeepsWrites(table, writes) == Overlay(table, writes)

\* ROLLBACK discards the write set
Rollback(table, writes) == table

\* no row-level locking: concurrent writers of one row do not wait
RowsFreeNoLock(t, cs, hs, ss) == TRUE

\* row-level locking: a row written by an open transaction is locked until
\* that transaction ends
RowsFree(t, cs, hs, ss) ==
    \A o \in Txs \ {t} :
        /\ cs \cap DOMAIN tx[o].ws.chatter = {}
        /\ hs \cap DOMAIN tx[o].ws.channel = {}
        /\ ss \cap DOMAIN tx[o].ws.score = {}

Open(t) == tx[t].pc # "idle"

SamePair(t, c, h) == Open(t) /\ tx[t].c = c /\ tx[t].h = h

(***************************************************************************)
(* recordMention(chatterId, channelId, points): one transaction of five    *)
(* statements.  Each statement maps the transaction r to the transaction   *)
(* after it.                                                               *)
(***************************************************************************)
StartTx(c, h, p, ts) ==
    [pc |-> "upsert", c |-> c, h |-> h, p |-> p, now |-> ts, ws |-> NoWrites, conc |-> FALSE,
     by |-> "t1"]

\* the rows the upsert statement inserts
MissingChatters(r) == {r.c, r.h} \ DOMAIN ViewChatter(r)
MissingChannels(r) == {r.h} \ DOMAIN ViewChannel(r)

\* INSERT ... ON CONFLICT DO NOTHING for the chatter, the channel's owner and
\* the channel
DoUpsert(r) ==
    [r EXCEPT !.pc = "score",
              !.ws.chatter = Overlay(@, [k \in MissingChatters(r) |-> NewChatterRow(r.now)]),
              !.ws.channel = Overlay(@, [k \in MissingChannels(r) |-> NewChannelRow(r.now)])]

\* INSERT INTO score ... ON CONFLICT DO UPDATE SET score = score.score + p
DoScore(r) ==
    LET k == ScoreKey(r.c, r.h, r.by)
        old == IF Has(ViewScore(r), k) THEN ViewScore(r)[k] ELSE NewScoreRow(r.now)
    IN  [r EXCEPT !.pc = "chatter_total",
                  !.ws.score = Put(@, k, [old EXCEPT !.score = @ + r.p])]

\* UPDATE chatter SET total = p WHERE id = c
DoChatterTotalAssign(r) ==
    [r EXCEPT !.pc = "channel_total",
              !.ws.chatter = Put(@, r.c, [ViewChatter(r)[r.c] EXCEPT !.total = r.p])]

\* UPDATE chatter SET total = total + p WHERE id = c
DoChatterTotal(r) ==
    [r EXCEPT !.pc = "channel_total",
              !.ws.chatter = Put(@, r.c, [ViewChatter(r)[r.c] EXCEPT !.total = @ + r.p])]

\* UPDATE channel SET channel_total = channel_total + p WHERE id = h
DoChannelTotal(r) ==
    [r EXCEPT !.pc = "event",
              !.ws.channel = Put(@, r.h, [ViewChannel(r)[r.h] EXCEPT !.channel_total = @ + r.p])]

\* INSERT INTO score_event (chatter_id, channel_id, points)
DoEvent(r) ==
    [r EXCEPT !.pc = "commit",
              !.ws.events = Append(@, NewScoreEvent(r.c, r.h, r.p, r.now))]

Begin(t, c, h, p) ==
    /\ ~Open(t)
    /\ ncalls < MaxCalls
    /\ LET meets == {o \in Txs \ {t} : SamePair(o, c, h)} IN
       tx' = [o \in Txs |->
                IF o = t THEN [StartTx(c, h, p, clock) EXCEPT !.conc = (meets # {}), !.by = t]
                ELSE IF o \in meets THEN [tx[o] EXCEPT !.conc = TRUE]
                ELSE tx[o]]
    /\ ncalls' = ncalls + 1
    /\ UNCHANGED <<chatter, channel, score, score_event, clock, applied, hist, nonStoreVars>>

StmtUpsert(t) ==
    /\ tx[t].pc = "upsert"
    /\ RowsFree(t, MissingChatters(tx[t]), MissingChannels(tx[t]), {})
    /\ tx' = [tx EXCEPT ![t] = DoUpsert(@)]
    /\ UNCHANGED <<chatter, channel, score, score_event, clock, ncalls, applied, hist, nonStoreVars>>

StmtScore(t) ==
    /\ tx[t].pc = "score"
    /\ RowsFree(t, {}, {}, {ScoreKey(tx[t].c, tx[t].h, t)})
    /\ tx' = [tx EXCEPT ![t] = DoScore(@)]
    /\ UNCHANGED <<chatter, channel, score, score_event, clock, ncalls, applied, hist, nonStoreVars>>

StmtChatterTotal(t) ==
    /\ tx[t].pc = "chatter_total"
    /\ RowsFree(t, {tx[t].c}, {}, {})
    /\ tx' = [tx EXCEPT ![t] = DoChatterTotal(@)]
    /\ UNCHANGED <<chatter, channel, score, score_event, clock, ncalls, applied, hist, nonStoreVars>>

StmtChannelTotal(t) ==
    /\ tx[t].pc = "channel_total"
    /\ RowsFree(t, {}, {tx[t].h}, {})
    /\ tx' = [tx EXCEPT ![t] = DoChannelTotal(@)]
    /\ UNCHANGED <<chatter, channel, score, score_event, clock, ncalls, applied, hist, nonStoreVars>>

StmtEvent(t) ==
    /\ tx[t].pc = "event"
    /\ tx' = [tx EXCEPT ![t] = DoEvent(@)]
    /\ UNCHANGED <<chatter, channel, score, score_event, clock, ncalls, applied, hist, nonStoreVars>>

Commit(t) ==
    LET r == tx[t] IN
        /\ r.pc = "commit"
        /\ chatter' = Overlay(chatter, r.ws.chatter)
        /\ channel' = Overlay(channel, r.ws.channel)
        /\ score' = Overlay(score, r.ws.score)
        /\ score_event' = score_event \o r.ws.events
        /\ applied' = [applied EXCEPT ![<<r.c, r.h>>] = @ + r.p]
        /\ hist' = [hist EXCEPT !.conc = IF r.conc THEN @ + 1 ELSE @, !.commits = @ + 1]
        /\ tx' = [tx EXCEPT ![t] = IdleTx]
        /\ UNCHANGED <<clock, ncalls, nonStoreVars>>

\* the call fails (datastore error, lost connection) before it commits
Fail(t) ==
    LET r == tx[t] IN
        /\ Open(t)
        /\ chatter' = Rollback(chatter, r.ws.chatter)
        /\ channel' = Rollback(channel, r.ws.channel)
        /\ score' = Rollback(score, r.ws.score)
        /\ score_event' = score_event
        /\ hist' = [hist EXCEPT !.failed = @ \/ r.pc \notin {"upsert", "score"}]
        /\ tx' = [tx EXCEPT ![t] = IdleTx]
        /\ UNCHANGED <<clock, ncalls, applied, nonStoreVars>>

Tick ==
    /\ clock < MaxClock
    /\ clock' = clock + 1
    /\ UNCHANGED <<chatter, channel, score, score_event, tx, ncalls, applied, hist, nonStoreVars>>

StoreInit ==
    /\ chatter = Empty
    /\ channel = Empty
    /\ score = Empty
    /\ score_event = <<>>
    /\ clock = 0
    /\ tx = [t \in Txs |-> IdleTx]
    /\ ncalls = 0
    /\ applied = [k \in Pairs |-> 0]
    /\ hist = [failed |-> FALSE, conc |-> 0, commits |-> 0, rejected |-> FALSE]

StoreNext ==
    \/ \E t \in Txs, c \in HotIds, h \in HotIds, p \in Points : Begin(t, c, h, p)
    \/ \E t \in Txs : StmtUpsert(t)
    \/ \E t \in Txs : StmtScore(t)
    \/ \E t \in Txs : StmtChatterTotal(t)
    \/ \E t \in Txs : StmtChannelTotal(t)
    \/ \E t \in Txs : StmtEvent(t)
    \/ \E t \in Txs : Commit(t)
    \/ \E t \in Txs : Fail(t)
    \/ Tick

(***************************************************************************)
(* The ranked views.  ROW_NUMBER() OVER (ORDER BY ...) numbers the rows in *)
(* some order that agrees with the ORDER BY; rows that tie on every sort   *)
(* key are numbered in an order the database picks per query.              *)
(***************************************************************************)
Perms(S) == {s \in [1..Cardinality(S) -> S] : \A i, j \in DOMAIN s : i # j => s[i] # s[j]}

WithRanking(s) == [i \in DOMAIN s |-> s[i] @@ [ranking |-> i]]

\* ORDER BY c.total DESC, c.created_at DESC
ChatterBeforeNewestFirst(a, b) ==
    a.total > b.total \/ (a.total = b.total /\ a.created_at > b.created_at)

\* ORDER BY c.total DESC, c.created_at ASC
ChatterBefore(a, b) ==
    a.total > b.total \/ (a.total = b.total /\ a.created_at < b.created_at)

\* ORDER BY ch.channel_total DESC, ch.created_at ASC
ChannelBefore(a, b) ==
    a.total_channel > b.total_channel
    \/ (a.total_channel = b.total_channel /\ a.created_at < b.created_at)

\* the ORDER BY of the view of one variant
Before(variant, a, b) ==
    IF variant = "chatter" THEN ChatterBefore(a, b) ELSE ChannelBefore(a, b)

\* the orders ROW_NUMBER() may number the rows in: no row after one it sorts before
RowNumber(rows, variant) ==
    {s \in Perms(rows) : \A i, j \in DOMAIN s : i < j => ~Before(variant, s[j], s[i])}

\* CREATE VIEW chatter_leaderboard: the listings a query of the view may return
chatter_leaderboard ==
    LET rows == {[id |-> c, total |-> chatter[c].total, created_at |-> chatter[c].created_at]
                    : c \in DOMAIN chatter}
    IN  {WithRanking(s) : s \in RowNumber(rows, "chatter")}

\* CREATE VIEW channel_leaderboard: FROM channel ch JOIN chatter c ON ch.id = c.id
channel_leaderboard ==
    LET rows == {[id |-> h, created_at |-> channel[h].created_at,
                  total_channel |-> channel[h].channel_total,
                  total_chatter |-> chatter[h].total]
                    : h \in (DOMAIN channel) \cap (DOMAIN chatter)}
    IN  {WithRanking(s) : s \in RowNumber(rows, "channel")}

Leaderboard(variant) ==
    IF variant = "chatter" THEN chatter_leaderboard ELSE channel_leaderboard

\* what a call of a rank function gives: NULL, a rank, or an error of the query
RankNull == [found |-> FALSE, error |-> FALSE, rank |-> 0]
RankOf(n) == [found |-> TRUE, error |-> FALSE, rank |-> n]
RankError == [found |-> TRUE, error |-> TRUE, rank |-> 0]

\* get_chatter_rank: COUNT(*) + 1 of the rows WHERE total > chatter_total
\* OR (total = chatter_total AND created_at < chatter_created)
get_chatter_rank(id) ==
    IF ~Has(chatter, id) THEN RankNull
    ELSE RankOf(Cardinality({c \in DOMAIN chatter :
                    \/ chatter[c].total > chatter[id].total
                    \/ (chatter[c].total = chatter[id].total
                           /\ chatter[c].created_at < chatter[id].created_at)}) + 1)

\* get_channel_rank: its second query names total and channel_created, which
\* are neither columns of channel nor variables of the function (those are
\* channel_total, chan_total and chan_created): the query fails when run
get_channel_rank(id) ==
    IF ~Has(channel, id) THEN RankNull ELSE RankError

(***************************************************************************)
(* Query-string values and the conversions of lib/utils.  A value is a     *)
(* string, or Undef when the parameter is absent.                          *)
(***************************************************************************)
Undef == "undefined"

Nums == (0 - 2)..(2 * MaxCalls + 2)

\* String(n)
String(n) == ToString(n)

\* the strings that parseFloat reads as a finite number
NumStrs == {String(n) : n \in Nums}

\* Number(str), for the strings of NumStrs
Number(str) == CHOOSE n \in Nums : String(n) = str

\* !isNaN(parseFloat(n)) && isFinite(n)
isNumeric(n) == n \in NumStrs

\* strToNum: undefined when the string is not numeric
strToNum(str) ==
    IF ~isNumeric(str) THEN [def |-> FALSE, n |-> 0] ELSE [def |-> TRUE, n |-> Number(str)]

clamp(num, min, max) == IF num < min THEN min ELSE IF num > max THEN max ELSE num

\* JavaScript truthiness of a number | undefined
Truthy(v) == v.def /\ v.n # 0

(***************************************************************************)
(* The leaderboard endpoint of the API server: one ORDER BY ranking with   *)
(* LIMIT / OFFSET over the view, and the counts for the pagination         *)
(* controls.  The page parameter is 0-based.                               *)
(***************************************************************************)
DefaultLimit == 2

CeilDiv(a, b) == (a + b - 1) \div b

Min(a, b) == IF a < b THEN a ELSE b

ServerLimit(q) == IF q = Undef \/ Number(q) < 1 THEN DefaultLimit ELSE Number(q)

ServerPage(q) == IF q = Undef \/ Number(q) < 0 THEN 0 ELSE Number(q)

ServerBody(listing, url) ==
    LET limit == ServerLimit(url.limit)
        page == ServerPage(url.page)
        n == Len(listing)
    IN  [page |-> page, total_items |-> n, total_pages |-> CeilDiv(n, limit),
         page_size |-> limit,
         items |-> SubSeq(listing, Min(n, page * limit) + 1, Min(n, (page + 1) * limit))]

(***************************************************************************)
(* FetchUtil.fetchLeaderboard.                                             *)
(***************************************************************************)
NoBody == [page |-> 0, total_items |-> 0, total_pages |-> 0, page_size |-> 0, items |-> <<>>]

IdleReq ==
    [pc |-> "idle", variant |-> "chatter", limit |-> Undef, page |-> Undef,
     url |-> [limit |-> Undef, page |-> Undef], body |-> NoBody, nreq |-> 0]

\* a URL builder that sends the 1-based page number as it is
LeaderboardUrlOneBased(pagination) ==
    LET limit == strToNum(pagination.limit)
        page == strToNum(pagination.page)
    IN  [limit |-> IF Truthy(limit) THEN String(limit.n) ELSE Undef,
         page |-> IF Truthy(page) THEN String(clamp(page.n, 0, page.n)) ELSE Undef]

\* the request URL built from the pagination strings
LeaderboardUrl(pagination) ==
    LET limit == strToNum(pagination.limit)
        page == strToNum(pagination.page)
    IN  [limit |-> IF Truthy(limit) THEN String(limit.n) ELSE Undef,
         page |-> IF Truthy(page) THEN String(clamp(page.n - 1, 0, page.n - 1)) ELSE Undef]

\* fetchLeaderboard up to its await of fetch
SendLeaderboard(r, variant, pagination) ==
    [r EXCEPT !.pc = "sent", !.variant = variant,
              !.limit = pagination.limit, !.page = pagination.page,
              !.url = LeaderboardUrl(pagination), !.nreq = @ + 1]

\* a test that also takes the last page for a page that does not exist
PageMissingInclusive(body, page) == isNumeric(page) /\ body.total_pages <= Number(page)

\* body.total_pages < Number(pagination.page): Number of a non-numeric string
\* is NaN and the comparison false
PageMissing(body, page) == isNumeric(page) /\ body.total_pages < Number(page)

IdleWalk ==
    [pc |-> "idle", variant |-> "chatter", size |-> 1, next |-> 1, acc |-> <<>>]

PageInit ==
    /\ req = IdleReq
    /\ walk = IdleWalk

\* the server answers the request in flight from one query of the view
ServerRespond ==
    /\ req.pc = "sent"
    /\ \E listing \in Leaderboard(req.variant) :
          req' = [req EXCEPT !.pc = "received", !.body = ServerBody(listing, req.url)]
    /\ UNCHANGED <<walk, storeVars, nonPageVars>>

\* fetchLeaderboard after the response: the fallback request for a page that
\* does not exist, or the return of the body
ClientResume ==
    /\ req.pc = "received"
    /\ req' = IF PageMissing(req.body, req.page)
              THEN SendLeaderboard(req, req.variant,
                                   [limit |-> req.limit, page |-> String(req.body.total_pages)])
              ELSE [req EXCEPT !.pc = "done"]
    /\ UNCHANGED <<walk, storeVars, nonPageVars>>

\* a caller starts reading every page at one page size, from page 1
WalkStart(variant, size) ==
    /\ req.pc \in {"idle", "done"}
    /\ walk.pc # "walking"
    /\ walk' = [pc |-> "walking", variant |-> variant, size |-> size, next |-> 1, acc |-> <<>>]
    /\ req' = SendLeaderboard([IdleReq EXCEPT !.nreq = 0], variant,
                              [limit |-> String(size), page |-> String(1)])
    /\ UNCHANGED <<storeVars, nonPageVars>>

\* the caller appends the page it got and asks for the next one, up to total_pages
WalkStep ==
    /\ walk.pc = "walking"
    /\ req.pc = "done"
    /\ IF walk.next >= req.body.total_pages
       THEN /\ walk' = [walk EXCEPT !.pc = "done", !.acc = @ \o req.body.items]
            /\ req' = [req EXCEPT !.pc = "idle"]
       ELSE /\ walk' = [walk EXCEPT !.next = @ + 1, !.acc = @ \o req.body.items]
            /\ req' = SendLeaderboard([IdleReq EXCEPT !.nreq = 0], walk.variant,
                                      [limit |-> String(walk.size), page |-> String(walk.next + 1)])
    /\ UNCHANGED <<storeVars, nonPageVars>>

\* recordMention on an otherwise idle store: the five statements and the commit.
\* A write ends the reading of the pages: the reader starts over.
RecordMention(c, h, p) ==
    LET r == DoEvent(DoChannelTotal(DoChatterTotal(DoScore(DoUpsert(StartTx(c, h, p, clock)))))) IN
        /\ \A t \in Txs : ~Open(t)
        /\ ncalls < MaxCalls
        /\ ncalls' = ncalls + 1
        /\ chatter' = Overlay(chatter, r.ws.chatter)
        /\ channel' = Overlay(channel, r.ws.channel)
        /\ score' = Overlay(score, r.ws.score)
        /\ score_event' = score_event \o r.ws.events
        /\ applied' = [applied EXCEPT ![<<c, h>>] = @ + p]
        /\ hist' = [hist EXCEPT !.commits = @ + 1]
        /\ walk' = IdleWalk
        /\ req' = IdleReq
        /\ UNCHANGED <<clock, tx, nonPageVars>>

(***************************************************************************)
(* Cache<T>: the TTL cache of valid keys (ChannelCache).                   *)
(***************************************************************************)
TtlMs == 2           \* the ttl the cache is constructed with, in clock ticks
MaxNow == 4          \* Date.now() runs over 0..MaxNow

Keys == {"#a", "#b"}
Callers == {"r1", "r2"}

Null == [isNull |-> TRUE, ms |-> 0]
At(ms) == [isNull |-> FALSE, ms |-> ms]

IdleCall ==
    [pc |-> "idle", op |-> "exists", name |-> "#a", fetched |-> FALSE, failed |-> FALSE,
     overlap |-> FALSE, result |-> FALSE, expect |-> FALSE]

\* the cache also counts as stale at the very end of the ttl
ttlElapsedInclusive ==
    lastRefresh.isNull \/ lastRefresh.ms + TtlMs <= now

\* ttlElapsed(): _lastRefresh == null || _lastRefresh + _ttlMs < Date.now()
ttlElapsed ==
    lastRefresh.isNull \/ lastRefresh.ms + TtlMs < now

\* the fetched names merged into the cached set
SetDataMerge(old, names) == old \cup names

\* set data(names): this._data = new Set(names)
SetData(old, names) == names

InFlight(p) == call[p].pc \in {"fetching", "json"}
Callable(p) == call[p].pc \in {"idle", "returned", "raised"}

CacheInit ==
    /\ cache_data = {}
    /\ lastRefresh = Null
    /\ now = 0
    /\ call = [p \in Callers |-> IdleCall]
    /\ lastGood = {}
    /\ owrites = 0

\* refresh() up to its first await: return when the cache is fresh, issue the
\* fetch when it is stale
StartRefresh(p, op, name) ==
    LET meets == {o \in Callers \ {p} : InFlight(o)} IN
    IF ~ttlElapsed
    THEN call' = [call EXCEPT ![p] = [IdleCall EXCEPT !.pc = "settled", !.op = op, !.name = name]]
    ELSE call' = [o \in Callers |->
                    IF o = p THEN [IdleCall EXCEPT !.pc = "fetching", !.op = op, !.name = name,
                                                   !.fetched = TRUE, !.overlap = (meets # {})]
                    ELSE IF o \in meets THEN [call[o] EXCEPT !.overlap = TRUE]
                    ELSE call[o]]

\* exists(name): await this.refresh()
Exists(p, name) ==
    /\ Callable(p)
    /\ StartRefresh(p, "exists", name)
    /\ UNCHANGED <<cache_data, lastRefresh, now, lastGood, owrites, nonCacheVars>>

\* a direct call of refresh()
Refresh(p) ==
    /\ Callable(p)
    /\ StartRefresh(p, "refresh", "#a")
    /\ UNCHANGED <<cache_data, lastRefresh, now, lastGood, owrites, nonCacheVars>>

\* a refresh that stamps the time of a response that is not ok as well
FetchResponseStamps(p, ok) ==
    /\ call[p].pc = "fetching"
    /\ call' = [call EXCEPT ![p].pc = IF ok THEN "json" ELSE "settled",
                            ![p].failed = ~ok]
    /\ lastRefresh' = IF ok THEN lastRefresh ELSE At(now)
    /\ UNCHANGED <<cache_data, now, lastGood, owrites, nonCacheVars>>

\* the fetch resolves with a response: !response.ok logs and returns, an ok
\* response goes on to read its JSON body
FetchResponse(p, ok) ==
    /\ call[p].pc = "fetching"
    /\ call' = [call EXCEPT ![p].pc = IF ok THEN "json" ELSE "settled",
                            ![p].failed = ~ok]
    /\ UNCHANGED <<cache_data, lastRefresh, now, lastGood, owrites, nonCacheVars>>

\* the fetch rejects (transport error): nothing in refresh() or exists()
\* catches it and the decorator rethrows
FetchReject(p) ==
    /\ call[p].pc = "fetching"
    /\ call' = [call EXCEPT ![p].pc = "raised", ![p].failed = TRUE]
    /\ UNCHANGED <<cache_data, lastRefresh, now, lastGood, owrites, nonCacheVars>>

\* response.json() resolves: the Ok branch replaces the set and stamps the time
JsonOk(p, names) ==
    /\ call[p].pc = "json"
    /\ cache_data' = SetData(cache_data, names)
    /\ lastRefresh' = At(now)
    /\ lastGood' = names
    /\ owrites' = IF call[p].overlap /\ names # cache_data /\ owrites < 2 THEN owrites + 1 ELSE owrites
    /\ call' = [call EXCEPT ![p].pc = "settled"]
    /\ UNCHANGED <<now, nonCacheVars>>

\* response.json() rejects: the Err branch logs and throws
JsonErr(p) ==
    /\ call[p].pc = "json"
    /\ call' = [call EXCEPT ![p].pc = "raised", ![p].failed = TRUE]
    /\ UNCHANGED <<cache_data, lastRefresh, now, lastGood, owrites, nonCacheVars>>

\* the awaited refresh() has resolved: exists() returns this._data.has(name),
\* a direct refresh() returns
Return(p) ==
    /\ call[p].pc = "settled"
    /\ call' = [call EXCEPT ![p].pc = "returned",
                            ![p].result = (call[p].op = "exists" /\ call[p].name \in cache_data),
                            ![p].expect = (call[p].op = "exists" /\ call[p].name \in lastGood)]
    /\ UNCHANGED <<cache_data, lastRefresh, now, lastGood, owrites, nonCacheVars>>

CacheTick ==
    /\ now < MaxNow
    /\ now' = now + 1
    /\ UNCHANGED <<cache_data, lastRefresh, call, lastGood, owrites, nonCacheVars>>

CacheNext ==
    \/ \E p \in Callers, name \in Keys : Exists(p, name)
    \/ \E p \in Callers : Refresh(p)
    \/ \E p \in Callers, ok \in BOOLEAN : FetchResponse(p, ok)
    \/ \E p \in Callers : FetchReject(p)
    \/ \E p \in Callers, names \in SUBSET Keys : JsonOk(p, names)
    \/ \E p \in Callers : JsonErr(p)
    \/ \E p \in Callers : Return(p)
    \/ CacheTick

(***************************************************************************)
(* The profile enrichment client (lib/server/helix/utils).  An identity is *)
(* a number 1..MaxLogins; NoLogin is the text "undefined" that pop() of an *)
(* empty array puts into a URL.  The profile of login i has id IdOf(i).    *)
(***************************************************************************)
MAX_QUERY_LENGTH == 2    \* identities per batch request (100 in the source)
MaxLogins == 5           \* length of the longest input of one lookup

NoLogin == 0

Range(s) == {s[i] : i \in DOMAIN s}

\* the input of a lookup: n distinct logins
LoginsOf(n) == [i \in 1..n |-> i]

\* ids are assigned in the reverse order of the logins
IdOf(login) == MaxLogins + 1 - login

ProfileOf(login) == [id |-> IdOf(login), login |-> login]

ColorOf(id) == [user_id |-> id, color |-> id]

\* the arrays an Array.prototype.sort by the key leaves: ascending ids
SortData(s) ==
    CHOOSE t \in Perms(Range(s)) : \A i, j \in DOMAIN t : i < j => t[i].id < t[j].id

SortColors(s) ==
    CHOOSE t \in Perms(Range(s)) : \A i, j \in DOMAIN t : i < j => t[i].user_id < t[j].user_id

\* the elements of s, in order, that are in keep
RECURSIVE Filter(_, _)
Filter(s, keep) ==
    IF s = <<>> THEN <<>>
    ELSE (IF Head(s) \in keep THEN <<Head(s)>> ELSE <<>>) \o Filter(Tail(s), keep)

\* logins.slice(cursor, Math.min(cursor + 100, logins.length))
ArraySlice(logins, cursor) ==
    SubSeq(logins, cursor + 1, Min(cursor + MAX_QUERY_LENGTH, Len(logins)))

\* getBatchUrl: logins.pop() first, then the logins that are left; the array
\* of the caller has lost its last element afterwards
getBatchUrl(logins) ==
    [uri |-> IF logins = <<>> THEN <<NoLogin>>
             ELSE <<logins[Len(logins)]>> \o SubSeq(logins, 1, Len(logins) - 1),
     logins |-> IF logins = <<>> THEN <<>> ELSE SubSeq(logins, 1, Len(logins) - 1)]

\* the call goes on without waiting for the response
NoAwait(inflight) == inflight

\* await: the call goes on when the response has arrived
AwaitResponse(inflight) == {}

IdleHx ==
    [pc |-> "idle", withColor |-> FALSE, logins |-> <<>>, cursor |-> 0, remaining |-> 0,
     slice |-> <<>>, rest |-> <<>>, data |-> <<>>, ids |-> <<>>, retrieved |-> <<>>,
     inflight |-> {}, allOk |-> TRUE]

NoHxLog == [batches |-> <<>>, individual |-> <<>>, colors |-> <<>>, colorIndividual |-> <<>>]

HelixInit ==
    /\ hx = IdleHx
    /\ hxlog = NoHxLog

\* cursor += Math.min(100, remaining); remaining -= remaining > 100 ? 100 : remaining
Advance(h) ==
    [h EXCEPT !.cursor = @ + Min(MAX_QUERY_LENGTH, h.remaining),
              !.remaining = @ - (IF @ > MAX_QUERY_LENGTH THEN MAX_QUERY_LENGTH ELSE @)]

\* while (remaining): the next slice goes out as one batch request, or the
\* lookup returns what it has retrieved
LoopTop(h, log) ==
    IF h.remaining = 0
    THEN [h |-> [h EXCEPT !.pc = "done"], log |-> log]
    ELSE LET slice == ArraySlice(h.logins, h.cursor)
             u == getBatchUrl(slice)
         IN  [h |-> [h EXCEPT !.pc = "batch", !.slice = slice, !.rest = u.logins,
                              !.inflight = @ \cup {Len(log.batches) + 1}],
              log |-> [log EXCEPT !.batches = Append(@, u.uri)]]

\* colors[idx] for every profile of the batch: reading a property of
\* colors[idx] throws a TypeError when the colors are fewer than the profiles
Zip(h, log, colors) ==
    IF Len(colors) < Len(h.data)
    THEN [h |-> [h EXCEPT !.pc = "raised"], log |-> log]
    ELSE LET zipped == [i \in DOMAIN h.data |->
                          [id |-> h.data[i].id, login |-> h.data[i].login,
                           color |-> colors[i].color]]
         IN  LoopTop(Advance([h EXCEPT !.retrieved = @ \o zipped]), log)

\* if (fetched): helixGetIdsFromLogins goes on to the colors of the ids, in
\* the order of the response, and sorts the profiles; fetchBatchedImages
\* pushes the profiles
AfterFetched(h, log, data) ==
    IF h.withColor
    THEN LET u == getBatchUrl([i \in DOMAIN data |-> data[i].id])
         IN  [h |-> [h EXCEPT !.pc = "color", !.data = SortData(data), !.ids = u.logins],
              log |-> [log EXCEPT !.colors = Append(@, u.uri)]]
    ELSE LoopTop(Advance([h EXCEPT !.data = data, !.retrieved = @ \o data]), log)

\* helixGetIdsFromLogins(logins) (withColor) or fetchBatchedImages(logins)
HelixCall(n, withColor) ==
    /\ hx.pc \in {"idle", "done", "raised"}
    /\ LET r == LoopTop([IdleHx EXCEPT !.logins = LoginsOf(n), !.remaining = n,
                                       !.withColor = withColor], NoHxLog)
       IN  hx' = r.h /\ hxlog' = r.log
    /\ UNCHANGED nonHelixVars

\* helixFetchBatchedImages: the batch response; status 200 carries the
\* profiles in an order the service picks, any other status starts the
\* fallback over the logins array as getBatchUrl left it
BatchRespond(ok) ==
    /\ hx.pc = "batch"
    /\ LET h == [hx EXCEPT !.inflight = AwaitResponse(@), !.allOk = @ /\ ok] IN
       IF ok
       THEN \E t \in Perms(Range(hx.slice)) :
               LET r == AfterFetched(h, hxlog, [i \in DOMAIN t |-> ProfileOf(t[i])])
               IN  hx' = r.h /\ hxlog' = r.log
       ELSE /\ hx' = [h EXCEPT !.pc = "individual"]
            /\ hxlog' = [hxlog EXCEPT !.individual = Append(@, [batch |-> hx.slice, asked |-> hx.rest])]
    /\ UNCHANGED nonHelixVars

\* helixIndividualFetch: Promise.all over one helixFetchUserImage per login;
\* the logins whose request failed are filtered out
IndividualSettle(okset) ==
    /\ hx.pc = "individual"
    /\ LET kept == Filter(hx.rest, okset)
           r == AfterFetched([hx EXCEPT !.allOk = @ /\ okset = Range(hx.rest)], hxlog,
                             [i \in DOMAIN kept |-> ProfileOf(kept[i])])
       IN  hx' = r.h /\ hxlog' = r.log
    /\ UNCHANGED nonHelixVars

\* helixFetchUserColor: the batch response; status 200 carries the colors of
\* the ids of the URL in an order the service picks
ColorRespond(ok) ==
    /\ hx.pc = "color"
    /\ LET asked == Range(hxlog.colors[Len(hxlog.colors)]) \ {NoLogin}
           h == [hx EXCEPT !.allOk = @ /\ ok]
       IN  IF ok
           THEN \E t \in Perms(asked) :
                   LET r == Zip(h, hxlog, SortColors([i \in DOMAIN t |-> ColorOf(t[i])]))
                   IN  hx' = r.h /\ hxlog' = r.log
           ELSE /\ hx' = [h EXCEPT !.pc = "colorIndividual"]
                /\ hxlog' = [hxlog EXCEPT !.colorIndividual =
                                      Append(@, [batch |-> [i \in DOMAIN hx.data |-> hx.data[i].id],
                                                 asked |-> hx.ids])]
    /\ UNCHANGED nonHelixVars

\* the fallback of helixFetchUserColor: one request per id of the array as
\* getBatchUrl left it; the ids whose request failed are filtered out
ColorIndividualSettle(okset) ==
    /\ hx.pc = "colorIndividual"
    /\ LET kept == Filter(hx.ids, okset)
           r == Zip([hx EXCEPT !.allOk = @ /\ okset = Range(hx.ids)], hxlog,
                    SortColors([i \in DOMAIN kept |-> ColorOf(kept[i])]))
       IN  hx' = r.h /\ hxlog' = r.log
    /\ UNCHANGED nonHelixVars

HelixNext ==
    \/ \E n \in 0..MaxLogins, withColor \in BOOLEAN : HelixCall(n, withColor)
    \/ \E ok \in BOOLEAN : BatchRespond(ok)
    \/ \E okset \in SUBSET Range(hx.rest) : IndividualSettle(okset)
    \/ \E ok \in BOOLEAN : ColorRespond(ok)
    \/ \E okset \in SUBSET Range(hx.ids) : ColorIndividualSettle(okset)

(***************************************************************************)
(* RedisClientPool: the leaderboard queries over the key-value cache and   *)
(* their enrichment with profile images.                                   *)
(***************************************************************************)
Names == {"ann", "bob"}              \* the names on the global leaderboards
Queriers == {"q1", "q2"}             \* concurrent callers of getLeaderboard

REDACTED_USER == "{{REDACTED_USER}}"
NullImage == "null"

\* user.display_name of the profile of a login
DisplayOf(name) == IF name = "ann" THEN "Ann" ELSE name

ImageKeys == Names \cup {DisplayOf(x) : x \in Names}

\* user:<name>:total and the scores of channel:global:leaderboard
UserTotals == [x \in Names |-> IF x = "ann" THEN 2 ELSE 1]
ChannelScores == [x \in Names |-> IF x = "ann" THEN 1 ELSE 3]

\* a read of the cache that shows the login of a redacted user
ShownNameRaw(redact, name) == name

\* name: redact ? this.REDACTED_USER : name
ShownName(redact, name) == IF redact THEN REDACTED_USER ELSE name

\* getUserFromCache(key, name)
getUserFromCache(name) ==
    LET redact == name \in redis.redact IN
        [name |-> ShownName(redact, name),
         total |-> UserTotals[name],
         image |-> IF redact \/ name \notin redis.image THEN NullImage ELSE name,
         redact |-> redact,
         prevImgFetch |-> name \in redis.prev_helix_fetch]

\* the channel branch of getLeaderboard: GET user:<name>:redact and the
\* cached image getChannelImage reads
getBroadcasterFromCache(name) ==
    LET redact == name \in redis.redact IN
        [name |-> ShownName(redact, name),
         total |-> ChannelScores[name],
         image |-> IF redact \/ name \notin redis.image THEN NullImage ELSE name,
         redact |-> redact,
         prevImgFetch |-> FALSE]

\* an enrichment test that does not look at the stored image
NeedsCacheAttemptAnyImage(u) ==
    ~u.prevImgFetch /\ ~u.redact /\ u.name # REDACTED_USER

\* an enrichment test that does not look at the redact flag
NeedsCacheAttemptRedacted(u) == u.image = NullImage /\ ~u.prevImgFetch

\* getUserData: storedKey === 'user' && !image && !prevImgFetch && !redact
\* && name !== this.REDACTED_USER
NeedsCacheAttempt(u) ==
    u.image = NullImage /\ ~u.prevImgFetch /\ ~u.redact /\ u.name # REDACTED_USER

\* a channel branch that asks for the image before it looks at the flag
NeedsChannelImageAnyone(u) == u.image = NullImage

\* getLeaderboard (channel branch) and getChannelImage: not redacted and no
\* cached image
NeedsChannelImage(u) == ~u.redact /\ u.image = NullImage

\* what a query has read before it has read anything
NotSeen ==
    [x \in Names |-> [name |-> x, total |-> UserTotals[x], image |-> NullImage,
                      redact |-> FALSE, prevImgFetch |-> FALSE]]

IdleQry ==
    [pc |-> "idle", kind |-> "user", seen |-> NotSeen,
     needs |-> {}, flagged0 |-> {}, imaged0 |-> {}, redacted0 |-> {}, result |-> {}]

NoRedis == [redact |-> {}, prev_helix_fetch |-> {}, image |-> {}]

EnrichInit ==
    /\ redis = NoRedis
    /\ qry = [p \in Queriers |-> IdleQry]

\* the query returns its items to the caller
Returned(r, items) ==
    [IdleQry EXCEPT !.pc = "done", !.kind = r.kind, !.redacted0 = r.redacted0,
                    !.result = items]

\* the items of a result: what the caller is shown, and (of) whose item it is
\* (kept as a set: the order the trailing sort gives the array is not modelled)
ItemsOf(seen, fetched) ==
    {[of |-> x, shown |-> seen[x].name, total |-> seen[x].total,
      image |-> IF x \in fetched THEN x ELSE seen[x].image] : x \in {y \in Names : seen[y].total # 0}}

\* getLeaderboard(storedKey, returnKey, 'global') is called
QueryStart(p, kind) ==
    /\ qry[p].pc \in {"idle", "done", "raised"}
    /\ qry' = [qry EXCEPT ![p] = [qry[p] EXCEPT !.pc = "reading", !.kind = kind,
                                   !.needs = {}, !.result = {},
                                   !.flagged0 = redis.prev_helix_fetch,
                                   !.imaged0 = redis.image \cap Names,
                                   !.redacted0 = redis.redact]]
    /\ UNCHANGED <<redis, nonEnrichVars>>

\* the GETs of getUserFromCache, or of the channel branch, for the names of the board
ReadCache(p) ==
    /\ qry[p].pc = "reading"
    /\ qry' = [qry EXCEPT ![p].pc = "read",
                          ![p].seen = [x \in Names |->
                              IF qry[p].kind = "user" THEN getUserFromCache(x)
                              ELSE getBroadcasterFromCache(x)]]
    /\ UNCHANGED <<redis, nonEnrichVars>>

\* after the reads: getUserData sets prev_helix_fetch for the users it is
\* about to look up and calls fetchBatchedImages(needsCacheAttempt); the
\* channel branch calls helixFetchUserImage for each broadcaster without image
Decide(p) ==
    /\ qry[p].pc = "read"
    /\ LET user == qry[p].kind = "user"
           needs == {x \in Names : IF user THEN NeedsCacheAttempt(qry[p].seen[x])
                                           ELSE NeedsChannelImage(qry[p].seen[x])}
       IN  /\ redis' = IF user THEN [redis EXCEPT !.prev_helix_fetch = @ \cup needs] ELSE redis
           /\ qry' = [qry EXCEPT ![p] =
                        IF needs = {} THEN Returned(qry[p], ItemsOf(qry[p].seen, {}))
                        ELSE [qry[p] EXCEPT !.needs = needs, !.pc = "fetching"]]
    /\ UNCHANGED nonEnrichVars

\* the profile service has answered for the names it has a profile of:
\* getUserData caches the image under user.login, which fetchBatchedImages set
\* to the display name, and returns the items it had read; the channel branch
\* caches under the broadcaster's name and returns the image
HelixReturn(p, found) ==
    /\ qry[p].pc = "fetching"
    /\ found \subseteq qry[p].needs
    /\ LET user == qry[p].kind = "user" IN
           /\ redis' = [redis EXCEPT !.image =
                          @ \cup (IF user THEN {DisplayOf(x) : x \in found} ELSE found)]
           /\ qry' = [qry EXCEPT ![p] =
                        Returned(qry[p], ItemsOf(qry[p].seen, IF user THEN {} ELSE found))]
    /\ UNCHANGED nonEnrichVars

\* a request to the profile service fails in transport (fetch rejects), or
\* its body is not JSON: helixFetchBatchedImages has no try/catch, so
\* fetchBatchedImages, getUserData and getLeaderboard reject in turn;
\* getChannelImage catches the error and returns null
HelixReject(p) ==
    /\ qry[p].pc = "fetching"
    /\ qry' = [qry EXCEPT ![p] =
                 IF qry[p].kind = "user"
                 THEN [Returned(qry[p], {}) EXCEPT !.pc = "raised"]
                 ELSE Returned(qry[p], ItemsOf(qry[p].seen, {}))]
    /\ UNCHANGED <<redis, nonEnrichVars>>

\* a chatter asks to be redacted: user:<name>:redact is set
SetRedact(x) ==
    /\ x \notin redis.redact
    /\ redis' = [redis EXCEPT !.redact = @ \cup {x}]
    /\ UNCHANGED <<qry, nonEnrichVars>>

\* an operator clears user:<name>:prev_helix_fetch
ClearFlag(x) ==
    /\ x \in redis.prev_helix_fetch
    /\ redis' = [redis EXCEPT !.prev_helix_fetch = @ \ {x}]
    /\ qry' = [p \in Queriers |-> [qry[p] EXCEPT !.flagged0 = @ \ {x}]]
    /\ UNCHANGED nonEnrichVars

EnrichNext ==
    \/ \E p \in Queriers, kind \in {"user", "channel"} : QueryStart(p, kind)
    \/ \E p \in Queriers : ReadCache(p)
    \/ \E p \in Queriers : Decide(p)
    \/ \E p \in Queriers, found \in SUBSET Names : HelixReturn(p, found)
    \/ \E p \in Queriers : HelixReject(p)
    \/ \E x \in Names : SetRedact(x)
    \/ \E x \in Names : ClearFlag(x)

(***************************************************************************)
(* The legacy migrator (lib/server/db/psql/migrate): _migrateOldFormat     *)
(* runs the channel pass, the chatter pass and the validation.  The legacy *)
(* log is fixed: it does not change between runs.                          *)
(***************************************************************************)
MaxRuns == 2         \* runs of the migrator that complete
MaxStops == 1        \* runs that are interrupted

\* user:*:total and channel:#*:total of the legacy log, by lower-cased name
LegacyUsers == {"ann", "bob"}
LegacyChannels == {"bob", "cat"}

\* the ids helixGetIdsFromLogins resolves the names to
ResolveId(name) == IF name = "ann" THEN "u1" ELSE IF name = "bob" THEN "u2" ELSE "u3"

\* GET user:<display name>:total; the legacy keys carry the display name
LegacyUserTotal(name) == IF name = "ann" THEN 3 ELSE 1

\* GET channel:#<login>:total
LegacyChannelTotal(name) == IF name = "bob" THEN 2 ELSE 2

\* zRangeWithScores(user:<name>:leaderboard): channel name -> score
LegacyLeaderboard(name) ==
    IF name = "ann" THEN [h \in {"bob", "cat"} |-> IF h = "bob" THEN 2 ELSE 1]
    ELSE [h \in {"cat"} |-> 1]

\* the entries of a leaderboard in the order the for loop visits them
\* (REV: highest score first; ties by name)
LeaderboardSeq(name) ==
    LET lb == LegacyLeaderboard(name) IN
        CHOOSE t \in Perms(DOMAIN lb) :
            \A i, j \in DOMAIN t : i < j => lb[t[i]] >= lb[t[j]]

\* a score upsert that adds the legacy score to the stored one
UpsertScoreAdd(table, k, n, ts) ==
    IF Has(table, k) THEN [table EXCEPT ![k].score = @ + n]
    ELSE Put(table, k, [score |-> n, created_at |-> ts])

\* a chatter upsert that adds the legacy total to the stored one
UpsertChatterAdd(table, id, n, ts) ==
    IF Has(table, id) THEN [table EXCEPT ![id].total = @ + n]
    ELSE Put(table, id, [total |-> n, created_at |-> ts, private |-> FALSE])

\* insert(scores).values({..., score}).onConflictDoUpdate({set: {score}})
UpsertScore(table, k, n, ts) ==
    IF Has(table, k) THEN [table EXCEPT ![k].score = n]
    ELSE Put(table, k, [score |-> n, created_at |-> ts])

\* an owner upsert whose set names total: 0 as the inserted values do
UpsertOwnerZero(table, id, ts) ==
    IF Has(table, id) THEN [table EXCEPT ![id].total = 0]
    ELSE Put(table, id, [total |-> 0, created_at |-> ts, private |-> FALSE])

\* channel pass: insert(chatters).values({..., total: 0}).onConflictDoUpdate
\* with a set that does not name total
UpsertOwner(table, id, ts) ==
    IF Has(table, id) THEN table ELSE Put(table, id, [total |-> 0, created_at |-> ts, private |-> FALSE])

\* a chatter upsert that writes the inserted values over the existing row
UpsertChatterReplace(table, id, n, ts) ==
    Put(table, id, [total |-> n, created_at |-> ts, private |-> FALSE])

\* chatter pass: insert(chatters).values({..., total}).onConflictDoUpdate({set: {..., total}})
UpsertChatter(table, id, n, ts) ==
    IF Has(table, id) THEN [table EXCEPT ![id].total = n]
    ELSE Put(table, id, [total |-> n, created_at |-> ts, private |-> FALSE])

\* insert(channels).values({id, total}).onConflictDoUpdate({set: {total}})
UpsertChannel(table, id, n, ts) ==
    IF Has(table, id) THEN [table EXCEPT ![id].channel_total = n]
    ELSE Put(table, id, [channel_total |-> n, created_at |-> ts])

\* the scores and totals of the tables, without the timestamps
ValuesOf(ch, cn, sc) ==
    [chatter |-> [c \in DOMAIN ch |-> ch[c].total],
     channel |-> [h \in DOMAIN cn |-> cn[h].channel_total],
     score |-> [k \in DOMAIN sc |-> sc[k].score]]

RowValues == ValuesOf(chatter, channel, score)

NoValues == ValuesOf(Empty, Empty, Empty)

\* the writes of one item of the chatter pass, applied to the tables st
RECURSIVE ScoresOfItem(_, _, _)
ScoresOfItem(sc, name, n) ==
    IF n = 0 THEN sc
    ELSE LET h == LeaderboardSeq(name)[n] IN
         UpsertScore(ScoresOfItem(sc, name, n - 1),
                     <<ResolveId(name), ResolveId(h)>>, LegacyLeaderboard(name)[h], 0)

RECURSIVE ChannelPassOver(_, _)
ChannelPassOver(st, names) ==
    IF names = {} THEN st
    ELSE LET x == CHOOSE y \in names : TRUE
             t == ChannelPassOver(st, names \ {x})
         IN  [t EXCEPT !.chatter = UpsertOwner(@, ResolveId(x), 0),
                       !.channel = UpsertChannel(@, ResolveId(x), LegacyChannelTotal(x), 0)]

RECURSIVE ChatterPassOver(_, _)
ChatterPassOver(st, names) ==
    IF names = {} THEN st
    ELSE LET x == CHOOSE y \in names : TRUE
             t == ChatterPassOver(st, names \ {x})
         IN  [t EXCEPT !.chatter = UpsertChatter(@, ResolveId(x), LegacyUserTotal(x), 0),
                       !.score = ScoresOfItem(@, x, Len(LeaderboardSeq(x)))]

\* the tables one uninterrupted run leaves when it starts on the empty store
UninterruptedRun ==
    LET st == ChatterPassOver(
                  ChannelPassOver([chatter |-> Empty, channel |-> Empty, score |-> Empty],
                                  LegacyChannels),
                  LegacyUsers)
    IN  ValuesOf(st.chatter, st.channel, st.score)

IdleMig ==
    [pc |-> "idle", cstep |-> [x \in LegacyChannels |-> 0], ustep |-> [x \in LegacyUsers |-> 0],
     chanId |-> {}, chatterKeys |-> {}, runs |-> 0, stops |-> 0, first |-> NoValues,
     stoppedWith |-> NoValues, rowsAtValidate |-> NoValues]

MigInit == mig = IdleMig

\* _migrateOldFormat() is called
MigrateStart ==
    /\ mig.pc \in {"idle", "done", "stopped", "raised"}
    /\ mig.runs < MaxRuns
    /\ mig' = [mig EXCEPT !.pc = "channels",
                          !.cstep = [x \in LegacyChannels |-> 0],
                          !.ustep = [x \in LegacyUsers |-> 0]]
    /\ UNCHANGED <<storeVars, nonMigVars>>

\* updateChannelKeys, item x: SET channel:<login>:id and the owner's chatter
\* row, then the channel row
ChannelItemStep(x) ==
    /\ mig.pc = "channels"
    /\ mig.cstep[x] < 2
    /\ IF mig.cstep[x] = 0
       THEN /\ chatter' = UpsertOwner(chatter, ResolveId(x), clock)
            /\ mig' = [mig EXCEPT !.cstep[x] = 1, !.chanId = @ \cup {x}]
            /\ UNCHANGED channel
       ELSE /\ channel' = UpsertChannel(channel, ResolveId(x), LegacyChannelTotal(x), clock)
            /\ mig' = [mig EXCEPT !.cstep[x] = 2]
            /\ UNCHANGED chatter
    /\ UNCHANGED <<score, score_event, clock, tx, ncalls, applied, hist, nonMigVars>>

\* updateChannelKeys() called without await: its promise counts as settled at once
ChannelKeysNotAwaited == TRUE

\* await updateChannelKeys(): Promise.all over the items has resolved
ChannelKeysUpdated == \A x \in LegacyChannels : mig.cstep[x] = 2

\* await updateChannelKeys() has resolved: updateChatterKeys begins
ChannelPassDone ==
    /\ mig.pc = "channels"
    /\ ChannelKeysUpdated
    /\ mig' = [mig EXCEPT !.pc = "chatters"]
    /\ UNCHANGED <<storeVars, nonMigVars>>

\* updateChatterKeys, item x: SET chatter:<id>:login / :total and the chatter
\* row, then one score row per entry of the legacy leaderboard; an entry
\* whose channel has no channel:<name>:id makes the insert fail
ChatterItemStep(x) ==
    /\ mig.pc = "chatters"
    /\ mig.ustep[x] < 1 + Len(LeaderboardSeq(x))
    /\ IF mig.ustep[x] = 0
       THEN /\ chatter' = UpsertChatter(chatter, ResolveId(x), LegacyUserTotal(x), clock)
            /\ mig' = [mig EXCEPT !.ustep[x] = 1, !.chatterKeys = @ \cup {ResolveId(x)}]
            /\ UNCHANGED score
       ELSE LET h == LeaderboardSeq(x)[mig.ustep[x]] IN
            IF h \in mig.chanId
            THEN /\ score' = UpsertScore(score, ScoreKey(ResolveId(x), ResolveId(h), "migrator"),
                                         LegacyLeaderboard(x)[h], clock)
                 /\ mig' = [mig EXCEPT !.ustep[x] = @ + 1]
                 /\ UNCHANGED chatter
            ELSE /\ mig' = [mig EXCEPT !.pc = "stopped"]
                 /\ UNCHANGED <<chatter, score>>
    /\ UNCHANGED <<channel, score_event, clock, tx, ncalls, applied, hist, nonMigVars>>

\* await updateChatterKeys() has resolved: validate begins
ChatterPassDone ==
    /\ mig.pc = "chatters"
    /\ \A x \in LegacyUsers : mig.ustep[x] = 1 + Len(LeaderboardSeq(x))
    /\ mig' = [mig EXCEPT !.pc = "validate", !.rowsAtValidate = RowValues, !.runs = @ + 1,
                          !.first = IF mig.runs = 0 THEN RowValues ELSE @]
    /\ UNCHANGED <<storeVars, nonMigVars>>

\* validate(): randIndex is drawn below the number of chatter rows and used
\* as an index into KEYS chatter:*:total, which returns its keys in any
\* order; an index past the keys, a sampled chatter without a row, or one
\* without a score row throws a TypeError, which _migrateOldFormat does not
\* catch.  A comparison that fails logs nothing and returns.
Validate(randIndex, chId) ==
    /\ mig.pc = "validate"
    /\ randIndex \in 0..(IF chatter = Empty THEN 0 ELSE Cardinality(DOMAIN chatter) - 1)
    /\ LET sampled == randIndex < Cardinality(mig.chatterKeys) /\ chId \in mig.chatterKeys
           tops == {k \in DOMAIN score : k[1] = chId /\ Has(chatter, k[2])}
           returns == sampled /\ Has(chatter, chId) /\ tops # {}
       IN  /\ randIndex >= Cardinality(mig.chatterKeys) \/ chId \in mig.chatterKeys
           /\ mig' = IF returns
                     THEN [mig EXCEPT !.pc = "done"]
                     ELSE [mig EXCEPT !.pc = "raised"]
    /\ UNCHANGED <<storeVars, nonMigVars>>

\* the process is interrupted, or a datastore call fails, between two writes
Interrupt ==
    /\ mig.pc \in {"channels", "chatters"}
    /\ mig.stops < MaxStops
    /\ mig' = [mig EXCEPT !.pc = "stopped", !.stops = @ + 1, !.stoppedWith = RowValues]
    /\ UNCHANGED <<storeVars, nonMigVars>>

MigTick ==
    /\ clock < MaxClock
    /\ clock' = clock + 1
    /\ UNCHANGED <<chatter, channel, score, score_event, tx, ncalls, applied, hist, mig, nonMigVars>>

\* a redaction request sets the flag of a chatter row
SetPrivate(id) ==
    /\ Has(chatter, id)
    /\ ~chatter[id].private
    /\ chatter' = [chatter EXCEPT ![id].private = TRUE]
    /\ UNCHANGED <<channel, score, score_event, clock, tx, ncalls, applied, hist, mig, nonMigVars>>

MigrateNext ==
    \/ MigrateStart
    \/ \E x \in LegacyChannels : ChannelItemStep(x)
    \/ ChannelPassDone
    \/ \E x \in LegacyUsers : ChatterItemStep(x)
    \/ ChatterPassDone
    \/ \E i \in 0..Cardinality(Ids), id \in Ids : Validate(i, id)
    \/ Interrupt
    \/ MigTick

(***************************************************************************)
(* The rows of the leaderboard page: row.svelte lists the first sub-scores *)
(* of an entry and a count of "others"; the scores component lists the     *)
(* first images and a count of "more".                                     *)
(***************************************************************************)
MaxSubScores == 8    \* sub-scores one entry can have

RowEntries == {"e1", "e2"}

\* entry.scores?.slice(0, 6) and {#if entry.totalScores > 6}
RowTopN == 6

\* (entries ?? []).slice(0, 7)
ScoresTopN == 7

Max(a, b) == IF a > b THEN a ELSE b

NothingRendered == [pc |-> "none", entry |-> "e1", by |-> "row", m |-> 0, listed |-> 0, others |-> 0]

RowsInit == entryRows = [count |-> [e \in RowEntries |-> 0], out |-> NothingRendered]

\* one more chatter (or channel) has a score with the entry
AddSubScore(e) ==
    /\ entryRows.count[e] < MaxSubScores
    /\ entryRows' = [entryRows EXCEPT !.count[e] = @ + 1]
    /\ UNCHANGED nonRowsVars

\* row.svelte: intoUntypedEntry, then the first RowTopN sub-scores and, when
\* totalScores > RowTopN, "+ {entry.totalScores} others"
RenderRow(e) ==
    LET totalScores == entryRows.count[e] IN
        /\ entryRows' = [entryRows EXCEPT !.out =
                      [pc |-> "rendered", entry |-> e, by |-> "row", m |-> totalScores,
                       listed |-> Min(RowTopN, totalScores),
                       others |-> IF totalScores > RowTopN THEN totalScores ELSE 0]]
        /\ UNCHANGED nonRowsVars

\* the scores component: typedEntries = entries.slice(0, 7) and
\* remaining = Math.max(0, entries.length - typedEntries.length)
RenderScores(e) ==
    LET entries == entryRows.count[e]
        typedEntries == Min(ScoresTopN, entries)
    IN  /\ entryRows' = [entryRows EXCEPT !.out =
                      [pc |-> "rendered", entry |-> e, by |-> "scores", m |-> entries,
                       listed |-> typedEntries,
                       others |-> Max(0, entries - typedEntries)]]
        /\ UNCHANGED nonRowsVars

(***************************************************************************)
(* ClientLogger: log() fills the buffer, flush() takes the entries and     *)
(* sends them with sendWithRetry.  The buffer stays below batchSize.       *)
(***************************************************************************)
MaxBuffer == 2       \* entries logged between two flushes

\* DEFAULT_CONFIG.maxRetries
maxRetries == 3

Flushes == {"f1", "f2"}      \* the calls of flush()

\* a flush() call: where its sends are, whether its promise has settled,
\* the entries it took, the number of the attempt, the sends made and failed
IdleFlush ==
    [pc |-> "idle", settled |-> FALSE, taken |-> 0, attempt |-> 0, sends |-> 0, fails |-> 0]

LoggerInit == logger = [buffer |-> 0, flush |-> [f \in Flushes |-> IdleFlush]]

\* log(): this.buffer.push(entry)
Log ==
    /\ logger.buffer < MaxBuffer
    /\ logger' = [logger EXCEPT !.buffer = @ + 1]
    /\ UNCHANGED nonLoggerVars

\* flush() up to its await: return on an empty buffer, else take the entries
\* and call sendWithRetry(payload), which issues the first fetch
Flush(f) ==
    /\ logger.flush[f].pc = "idle"
    /\ logger' =
          IF logger.buffer = 0
          THEN [logger EXCEPT !.flush[f] = [IdleFlush EXCEPT !.pc = "ended", !.settled = TRUE]]
          ELSE [logger EXCEPT !.buffer = 0,
                              !.flush[f] = [IdleFlush EXCEPT !.pc = "sending",
                                                             !.taken = logger.buffer,
                                                             !.attempt = 1, !.sends = 1]]
    /\ UNCHANGED nonLoggerVars

\* the fetch of an attempt answers ok: sendWithRetry(payload, attempt)
\* resolves.  flush() awaits the call of attempt 1 only.
SendOk(f) ==
    /\ logger.flush[f].pc = "sending"
    /\ logger' = [logger EXCEPT !.flush[f].pc = "ended",
                                !.flush[f].settled = (logger.flush[f].attempt = 1)]
    /\ UNCHANGED nonLoggerVars

\* the fetch of an attempt rejects or answers not ok.  attempt <= maxRetries:
\* the call awaits new Promise(() => setTimeout(...)), whose executor takes
\* no resolve and so never settles; the timer is set.  Otherwise the error
\* is thrown: to flush(), which catches it, when this is the call flush()
\* awaits, and to nobody when the call was made by a timer.
SendFail(f) ==
    /\ logger.flush[f].pc = "sending"
    /\ logger' =
          IF logger.flush[f].attempt <= maxRetries
          THEN [logger EXCEPT !.flush[f].pc = "backoff", !.flush[f].fails = @ + 1]
          ELSE [logger EXCEPT !.flush[f].pc = "ended", !.flush[f].fails = @ + 1,
                              !.flush[f].settled = (logger.flush[f].attempt = 1)]
    /\ UNCHANGED nonLoggerVars

\* the timer fires: this.sendWithRetry(payload, attempt + 1), not awaited
RetryTimer(f) ==
    /\ logger.flush[f].pc = "backoff"
    /\ logger' = [logger EXCEPT !.flush[f].pc = "sending", !.flush[f].attempt = @ + 1,
                                !.flush[f].sends = @ + 1]
    /\ UNCHANGED nonLoggerVars

LoggerNext ==
    \/ Log
    \/ \E f \in Flushes : Flush(f)
    \/ \E f \in Flushes : SendOk(f)
    \/ \E f \in Flushes : SendFail(f)
    \/ \E f \in Flushes : RetryTimer(f)

Variants == {"chatter", "channel"}
PageSizes == {1, 2}

Init ==
    /\ StoreInit /\ PageInit /\ CacheInit /\ HelixInit /\ EnrichInit /\ MigInit /\ RowsInit
    /\ LoggerInit

StoreSpec == Init /\ [][StoreNext]_vars

BoardNext ==
    \/ \E c \in Ids, h \in HotIds : RecordMention(c, h, 1)
    \/ Tick
    \/ ServerRespond
    \/ ClientResume
    \/ \E v \in Variants, n \in PageSizes : WalkStart(v, n)
    \/ WalkStep

BoardSpec == Init /\ [][BoardNext]_vars

CacheSpec == Init /\ [][CacheNext]_vars

\* one caller that calls again after each of its calls has ended
RetryNext ==
    \/ \E name \in Keys : Exists("r1", name)
    \/ Refresh("r1")
    \/ \E ok \in BOOLEAN : FetchResponse("r1", ok)
    \/ FetchReject("r1")
    \/ \E names \in SUBSET Keys : JsonOk("r1", names)
    \/ JsonErr("r1")
    \/ Return("r1")
    \/ CacheTick

RetrySpec == Init /\ [][RetryNext]_vars

HelixSpec == Init /\ [][HelixNext]_vars

EnrichSpec == Init /\ [][EnrichNext]_vars

\* chatter leaderboard queries that run together; no flag is set or cleared
\* from outside
ConcurrentNext ==
    \/ \E p \in Queriers : QueryStart(p, "user")
    \/ \E p \in Queriers : ReadCache(p)
    \/ \E p \in Queriers : Decide(p)
    \/ \E p \in Queriers, found \in SUBSET Names : HelixReturn(p, found)
    \/ \E p \in Queriers : HelixReject(p)

ConcurrentSpec == Init /\ [][ConcurrentNext]_vars

MigrateSpec == Init /\ [][MigrateNext]_vars

\* runs of the migrator over a store in which chatters get redacted
RerunNext ==
    \/ MigrateStart
    \/ \E x \in LegacyChannels : ChannelItemStep(x)
    \/ ChannelPassDone
    \/ \E x \in LegacyUsers : ChatterItemStep(x)
    \/ ChatterPassDone
    \/ \E i \in 0..Cardinality(Ids), id \in Ids : Validate(i, id)
    \/ MigTick
    \/ \E id \in Ids : SetPrivate(id)

RerunSpec == Init /\ [][RerunNext]_vars

(***************************************************************************)
(* fetchLeaderboard called with any pagination strings, against a store    *)
(* that recordMention calls have filled and that is quiet during the call. *)
(***************************************************************************)
\* pagination.page / pagination.limit as they arrive in the query string
PageInputs == {"-1", "abc", "2", "4"}
LimitInputs == {"-1", "abc", "1", "2"}

\* fetchLeaderboard(variant, {limit, page}) up to its await of fetch
FetchCall(variant, limit, page) ==
    /\ req.pc \in {"idle", "done"}
    /\ req' = SendLeaderboard([IdleReq EXCEPT !.nreq = 0], variant,
                              [limit |-> limit, page |-> page])
    /\ UNCHANGED <<walk, storeVars, nonPageVars>>

\* a mention recorded before the first query
SeedMention(c, h) ==
    /\ req = IdleReq
    /\ RecordMention(c, h, 1)

SeedTick ==
    /\ req = IdleReq
    /\ Tick

FetchNext ==
    \/ \E c \in Ids, h \in HotIds : SeedMention(c, h)
    \/ SeedTick
    \/ \E v \in Variants, l \in LimitInputs, q \in PageInputs : FetchCall(v, l, q)
    \/ ServerRespond
    \/ ClientResume

FetchSpec == Init /\ [][FetchNext]_vars

\* fetchLeaderboard against leaderboards of every length the mentions of
\* chatters in their own channels give; the server answers every request and
\* the awaiting call is resumed
FallbackNext ==
    \/ \E c \in Ids : SeedMention(c, c)
    \/ \E v \in Variants, l \in LimitInputs, q \in PageInputs : FetchCall(v, l, q)
    \/ ServerRespond
    \/ ClientResume

FallbackSpec ==
    Init /\ [][FallbackNext]_vars /\ WF_vars(ServerRespond) /\ WF_vars(ClientResume)

\* the leaderboard page while its entries gain sub-scores and are rendered
RowsNext ==
    \/ \E e \in RowEntries : AddSubScore(e)
    \/ \E e \in RowEntries : RenderRow(e)
    \/ \E e \in RowEntries : RenderScores(e)

RowsSpec == Init /\ [][RowsNext]_vars

LoggerSpec == Init /\ [][LoggerNext]_vars

(***************************************************************************)
(* Removal of a chatter.  The repository declares the foreign keys twice:  *)
(* the SQL schema of the store without an ON DELETE clause (NO ACTION: a   *)
(* DELETE of a referenced row is rejected), the drizzle schema with        *)
(* onDelete: 'cascade'.                                                    *)
(***************************************************************************)
Schemas == {"sql", "drizzle"}

\* f without the keys of S
Without(f, S) == [k \in (DOMAIN f) \ S |-> f[k]]

\* rows that reference chatter id: its channel row, score rows, events
Referenced(id) ==
    \/ id \in DOMAIN channel
    \/ \E k \in DOMAIN score : k[1] = id \/ k[2] = id
    \/ \E i \in DOMAIN score_event :
          score_event[i].chatter_id = id \/ score_event[i].channel_id = id

\* DELETE FROM chatter WHERE id = ..., under the foreign keys of one schema
RemoveChatter(id, schema) ==
    /\ \A t \in Txs : ~Open(t)
    /\ id \in DOMAIN chatter
    /\ IF schema = "sql" /\ Referenced(id)
       THEN /\ hist' = [hist EXCEPT !.rejected = TRUE]
            /\ UNCHANGED <<chatter, channel, score>>
       ELSE /\ chatter' = Without(chatter, {id})
            /\ channel' = Without(channel, {id})
            /\ score' = Without(score, {k \in DOMAIN score : k[1] = id \/ k[2] = id})
            /\ UNCHANGED hist
    /\ UNCHANGED <<score_event, clock, tx, ncalls, applied, nonStoreVars>>

RemoveNext ==
    \/ \E c \in Ids, h \in HotIds : SeedMention(c, h)
    \/ SeedTick
    \/ \E id \in Ids, schema \in Schemas : RemoveChatter(id, schema)

RemoveSpec == Init /\ [][RemoveNext]_vars

(***************************************************************************)
(* recordMention calls of two sessions for one pair, interleaved with the  *)
(* statements of one run of the migrator, which writes the same pair.  A   *)
(* statement of the migrator waits, like any other, for the rows an open   *)
(* transaction has written.                                                *)
(***************************************************************************)
RaceBegin(t) == Begin(t, "u1", "u2", 1)

RaceChannelItemStep(x) ==
    /\ RowsFree("migrator", {ResolveId(x)}, {ResolveId(x)}, {})
    /\ ChannelItemStep(x)

RaceChatterItemStep(x) ==
    /\ RowsFree("migrator", {ResolveId(x)}, {}, {k \in Pairs : k[1] = ResolveId(x)})
    /\ ChatterItemStep(x)

RaceNext ==
    \/ \E t \in Txs : RaceBegin(t)
    \/ \E t \in Txs : StmtUpsert(t)
    \/ \E t \in Txs : StmtScore(t)
    \/ \E t \in Txs : StmtChatterTotal(t)
    \/ \E t \in Txs : StmtChannelTotal(t)
    \/ \E t \in Txs : StmtEvent(t)
    \/ \E t \in Txs : Commit(t)
    \/ \E t \in Txs : Fail(t)
    \/ MigrateStart
    \/ \E x \in LegacyChannels : RaceChannelItemStep(x)
    \/ ChannelPassDone
    \/ \E x \in LegacyUsers : RaceChatterItemStep(x)
    \/ ChatterPassDone

RaceSpec == Init /\ [][RaceNext]_vars

(***************************************************************************)
(* Properties of the Score Store (StoreSpec).                              *)
(***************************************************************************)
ScoreOf(c, h) == IF Has(score, <<c, h>>) THEN score[<<c, h>>].score ELSE 0

ChatterTotal(c) == IF Has(chatter, c) THEN chatter[c].total ELSE 0

ChannelTotal(h) == IF Has(channel, h) THEN channel[h].channel_total ELSE 0

SumScores(cs, hs) ==
    SumFn([k \in DOMAIN score |-> score[k].score],
          {k \in DOMAIN score : k[1] \in cs /\ k[2] \in hs})

\* C1: after any sequence of recordMention calls on an empty store, the score
\* of every pair is the sum of the points of the calls made for it, every
\* chatter's total is the sum of the score rows of that chatter and every
\* channel's total the sum of the score rows of that channel.
C1_ScoresAndTotalsAreSums ==
    /\ \A k \in Pairs : ScoreOf(k[1], k[2]) = applied[k]
    /\ \A c \in DOMAIN chatter : chatter[c].total = SumScores({c}, Ids)
    /\ \A h \in DOMAIN channel : channel[h].channel_total = SumScores(Ids, {h})

\* two calls with different points were made for one pair
C1_Witness ==
    \E k \in Pairs :
        /\ applied[k] = 3
        /\ Has(score, k) /\ score[k].score = 3
        /\ chatter[k[1]].total = 3
        /\ hist.commits = 2

\* C2: a recordMention call is atomic: in every state, also after a call has
\* failed part-way, the score rows, the chatter totals, the channel totals
\* and the event log show the same calls, each with all four effects.
C2_MentionIsAtomic ==
    /\ Len(score_event) = hist.commits
    /\ \A k \in Pairs : ScoreOf(k[1], k[2]) = SumPoints(score_event, {k[1]}, {k[2]})
    /\ \A c \in Ids : ChatterTotal(c) = SumPoints(score_event, {c}, Ids)
    /\ \A h \in Ids : ChannelTotal(h) = SumPoints(score_event, Ids, {h})

\* a call failed after its score increment, and another call committed
C2_Witness == hist.failed /\ hist.commits >= 1

\* C3: concurrent recordMention calls for one pair lose no increment: every
\* commit adds exactly its points to the score row and to both totals as
\* they stood, whatever the other sessions did meanwhile.
C3_NoIncrementLost ==
    [][\A c \in Ids, h \in Ids, p \in Points :
        (/\ Len(score_event') = Len(score_event) + 1
         /\ LET e == score_event'[Len(score_event')] IN
                e.chatter_id = c /\ e.channel_id = h /\ e.points = p)
        => /\ ScoreOf(c, h)' = ScoreOf(c, h) + p
           /\ ChatterTotal(c)' = ChatterTotal(c) + p
           /\ ChannelTotal(h)' = ChannelTotal(h) + p]_vars

\* two calls for one pair that ran at the same time have both committed
C3_Witness == hist.conc >= 2

(***************************************************************************)
(* Properties of the ranked views and of paging (BoardSpec).               *)
(***************************************************************************)
TotalOf(row, variant) == IF variant = "chatter" THEN row.total ELSE row.total_channel

Listed(variant) ==
    IF variant = "chatter" THEN DOMAIN chatter ELSE (DOMAIN channel) \cap (DOMAIN chatter)

\* C4: in a full leaderboard the higher total has the smaller rank, among
\* equal totals the earlier created_at has the smaller rank, and the ranks
\* of the N listed entities are exactly 1..N, one entity per rank.
C4_RankingIsOrderedAndDense ==
    \A v \in Variants : \A l \in Leaderboard(v) :
        /\ {l[i].ranking : i \in DOMAIN l} = 1..Cardinality(Listed(v))
        /\ {l[i].id : i \in DOMAIN l} = Listed(v)
        /\ Len(l) = Cardinality(Listed(v))
        /\ \A i, j \in DOMAIN l :
              /\ TotalOf(l[i], v) > TotalOf(l[j], v) => l[i].ranking < l[j].ranking
              /\ (TotalOf(l[i], v) = TotalOf(l[j], v) /\ l[i].created_at < l[j].created_at)
                    => l[i].ranking < l[j].ranking

\* of three chatters the server has listed the first two, which have equal
\* totals and were created at different times
C4_Witness ==
    /\ req.pc = "received"
    /\ req.variant = "chatter"
    /\ Len(req.body.items) = 2 /\ req.body.total_items = 3
    /\ req.body.items[1].total = req.body.items[2].total
    /\ req.body.items[1].created_at < req.body.items[2].created_at

\* C5 (as claimed): with no write in between, the pages 1..total_pages put one
\* after another are the full ranked listing, every entity once.
C5_PagesAreTheListing ==
    walk.pc = "done" => walk.acc \in Leaderboard(walk.variant)

(***************************************************************************)
(* Properties of the cache (CacheSpec).                                    *)
(***************************************************************************)
\* C6 (as claimed): every exists(name) call answers, and answers whether name
\* is in the set of the most recent successful refresh, whatever the pattern
\* of successes and failures of the source.
C6_ExistsAnswersFromLastGood ==
    \A p \in Callers :
        call[p].op = "exists" =>
            /\ call[p].pc # "raised"
            /\ call[p].pc = "returned" => call[p].result = call[p].expect

\* C7 (as claimed): a refresh whose fetch fails, by a non-success response or
\* by a transport error, does not raise and leaves the set and the
\* last-refresh time as they were, and the exists() that triggered it
\* answers from that set.
C7_FailedRefreshIsNoOp ==
    [][\A p \in Callers :
        /\ (call[p].pc = "fetching" /\ call'[p].pc \in {"settled", "raised"})
              => /\ call'[p].pc = "settled"
                 /\ cache_data' = cache_data
                 /\ lastRefresh' = lastRefresh
        /\ (call[p].pc = "settled" /\ call[p].failed /\ call[p].op = "exists"
                /\ call'[p].pc = "returned")
              => call'[p].result = (call[p].name \in cache_data)]_vars

\* C8: a call of refresh() or exists() issues a fetch exactly when the cache is
\* stale, that is when the last-refresh time is unset or now > lastRefresh +
\* ttl; no fetch is issued at any other moment.
C8_FetchIffStale ==
    [][\A p \in Callers :
        LET started == Callable(p) /\ call'[p].pc \in {"settled", "fetching"}
            issued == call[p].pc # "fetching" /\ call'[p].pc = "fetching"
            stale == lastRefresh.isNull \/ now > lastRefresh.ms + TtlMs
        IN  /\ issued => started
            /\ started => (issued <=> stale)]_vars

\* a call made exactly ttl after the last refresh went without a fetch
C8_Witness ==
    \E p \in Callers :
        /\ call[p].pc = "settled" /\ ~call[p].fetched
        /\ ~lastRefresh.isNull /\ now = lastRefresh.ms + TtlMs

\* C9: callers that find the cache stale together each issue a fetch, and
\* once all of them are through the cached set is the whole set delivered to
\* the refresh that wrote last.
C9_LastWriterWins ==
    (\A p \in Callers : ~InFlight(p)) => cache_data = lastGood

\* two refreshes that were in flight together have both changed the set
C9_Witness == owrites >= 2 /\ \A p \in Callers : ~InFlight(p)

\* C10: a reader calling exists() while a refresh is in progress sees a whole
\* delivered set: the cached set is at every moment the set of one delivery,
\* and every answer is membership in it.
C10_ReadersSeeWholeSets ==
    /\ cache_data = lastGood
    /\ \A p \in Callers :
          (call[p].op = "exists" /\ call[p].pc = "returned") => call[p].result = call[p].expect

\* a reader has answered true while the other caller's refresh is in flight
C10_Witness ==
    \E p \in Callers, o \in Callers :
        /\ p # o /\ InFlight(o)
        /\ call[p].op = "exists" /\ call[p].pc = "returned" /\ call[p].overlap
        /\ call[p].result /\ cache_data # Keys

(***************************************************************************)
(* Properties of the profile enrichment client (HelixSpec).                *)
(***************************************************************************)
\* the k-th of the consecutive slices of MAX_QUERY_LENGTH logins of an input of n
BatchSlice(n, k) ==
    {i \in 1..n : (k - 1) * MAX_QUERY_LENGTH < i /\ i <= k * MAX_QUERY_LENGTH}

HelixEnded == hx.pc \in {"done", "raised"}

\* C11 (as claimed): a lookup of n identities issues exactly ceil(n / 100)
\* batch requests of at most 100 identities each, the k-th carrying the k-th
\* consecutive slice of the input, every identity once; and when every
\* request succeeded the result has exactly n profiles.
C11_BatchesAreTheSlices ==
    LET n == Len(hx.logins) IN
        /\ \A k \in DOMAIN hxlog.batches :
              /\ Len(hxlog.batches[k]) <= MAX_QUERY_LENGTH
              /\ Cardinality(Range(hxlog.batches[k])) = Len(hxlog.batches[k])
              /\ Range(hxlog.batches[k]) = BatchSlice(n, k)
        /\ HelixEnded => Len(hxlog.batches) = CeilDiv(n, MAX_QUERY_LENGTH)
        /\ (HelixEnded /\ hx.allOk) =>
              /\ Len(hx.retrieved) = n
              /\ {hx.retrieved[i].login : i \in DOMAIN hx.retrieved} = 1..n

\* C12 (as claimed): when a batch request returns a non-success status, one
\* individual request goes out for each identity of that batch, and the
\* identities whose individual request fails are left out without raising.
C12_FallbackCoversTheBatch ==
    /\ \A k \in DOMAIN hxlog.individual :
          Range(hxlog.individual[k].asked) = Range(hxlog.individual[k].batch)
    /\ \A k \in DOMAIN hxlog.colorIndividual :
          Range(hxlog.colorIndividual[k].asked)
            = Range(hxlog.colorIndividual[k].batch)
    /\ hx.pc # "raised"

\* C13 (as claimed): the combined lookup returns, for every ordering of the
\* two responses and whether or not the colors cover every profile, records
\* whose color is the color record of the profile's own id.
C13_ColorsJoinById ==
    hx.withColor =>
        /\ hx.pc # "raised"
        /\ \A i \in DOMAIN hx.retrieved :
              hx.retrieved[i].color = ColorOf(hx.retrieved[i].id).color

\* C14: the batch requests of one lookup go out one after another: at most
\* one is in flight at any time, a batch is sent only after the response to
\* the one before it, and every batch request is one whole slice.
C14_OneBatchAtATime ==
    /\ Cardinality(hx.inflight) <= 1
    /\ hx.inflight \subseteq {Len(hxlog.batches)}
    /\ hx.pc # "batch" => hx.inflight = {}
    /\ \A k \in DOMAIN hxlog.batches :
          Range(hxlog.batches[k]) = BatchSlice(Len(hx.logins), k)

\* the third batch of a lookup is in flight, the first two have been answered
C14_Witness ==
    /\ hx.pc = "batch"
    /\ Len(hxlog.batches) = 3
    /\ hx.inflight = {3}
    /\ Len(hxlog.batches[3]) < MAX_QUERY_LENGTH

(***************************************************************************)
(* Properties of the enrichment of leaderboard queries (EnrichSpec).       *)
(***************************************************************************)
\* query p submits names to the profile service in this step
Submits(p) == qry[p].pc # "fetching" /\ qry'[p].pc = "fetching"

\* C15 (as claimed): an identity whose prev_helix_fetch flag was recorded
\* before a query began, and has not been cleared, is not submitted to the
\* profile service by that query.
C15_FlaggedNeverResubmitted ==
    [][\A p \in Queriers : Submits(p) => qry'[p].needs \cap qry[p].flagged0 = {}]_vars

\* C16: an identity that had an image stored on its record when a query
\* began is in no request that query sends to the profile service.
C16_StoredImageNeverRefetched ==
    [][\A p \in Queriers : Submits(p) => qry'[p].needs \cap qry[p].imaged0 = {}]_vars

\* a query that began with one image stored is asking for the other name
C16_Witness ==
    \E p \in Queriers :
        /\ qry[p].pc = "fetching"
        /\ qry[p].imaged0 # {}
        /\ qry[p].needs # {}

\* C20: in every result, the item of a chatter whose redact flag was set
\* when the query began shows the sentinel for its login, no image, and the
\* stored total.
C20_RedactedShownAsSentinel ==
    \A p \in Queriers :
        qry[p].pc = "done" =>
            \A item \in qry[p].result :
                item.of \in qry[p].redacted0 =>
                    /\ item.shown = REDACTED_USER
                    /\ item.image = NullImage
                    /\ item.total = (IF qry[p].kind = "user" THEN UserTotals[item.of]
                                     ELSE ChannelScores[item.of])

\* a result lists a redacted chatter that has an image stored, next to one
\* that is not redacted
C20_Witness ==
    \E p \in Queriers :
        /\ qry[p].pc = "done"
        /\ \E item \in qry[p].result : item.of \in qry[p].redacted0 /\ item.of \in redis.image
        /\ \E item \in qry[p].result : item.shown = item.of

\* the writes of the run in progress are all done
WritesDone == mig.pc \in {"validate", "done", "raised"}

\* C17: after a second run of the migrator over the same legacy log the
\* chatter, channel and score tables hold the same rows, with the same
\* totals and scores, as after the first run.
C17_SecondRunChangesNothing ==
    (mig.runs >= 2 /\ WritesDone) => RowValues = mig.first

C17_Witness ==
    /\ mig.runs = 2
    /\ mig.stops = 0
    /\ mig.pc = "done"
    /\ DOMAIN score # {}
    /\ RowValues = mig.first

\* C18: a run that stopped after some of its writes, followed by a run that
\* does all of them, leaves the tables with the rows, totals and scores of
\* one uninterrupted run: no row is added and no score is counted twice.
C18_RerunAfterStopEqualsOneRun ==
    (mig.stops >= 1 /\ mig.runs >= 1 /\ WritesDone) => RowValues = UninterruptedRun

C18_Witness ==
    /\ mig.stops = 1
    /\ mig.runs = 1
    /\ mig.pc = "done"
    /\ DOMAIN mig.stoppedWith.score # {}
    /\ mig.stoppedWith # UninterruptedRun
    /\ RowValues = UninterruptedRun

\* C19: the validation never makes the migration procedure fail, whatever
\* chatter it samples: the procedure completes and the migrated rows stay.
C19_ValidationNeverFails ==
    /\ mig.pc # "raised"
    /\ mig.pc = "done" => RowValues = mig.rowsAtValidate

(***************************************************************************)
(* Frame and failure properties of the leaderboard queries (EnrichSpec).   *)
(***************************************************************************)
\* query p takes a step
QueryStep(p) == qry'[p].pc # qry[p].pc

Answered(variant, page, size) ==
    /\ req.pc \in {"received", "done"} /\ ~PageMissing(req.body, req.page)
    /\ req.variant = variant /\ req.page = String(page) /\ req.limit = String(size)

\* C22 (as claimed): after n >= 1 calls recordMention(c, h, 1) for one chatter
\* c and one channel h on the empty store, the first page of the chatter
\* leaderboard has exactly one item: c, with total n and ranking 1.
C22_OneItemAfterMentionsOfOnePair ==
    \A k \in Pairs :
        (/\ Answered("chatter", 1, 2)
         /\ hist.commits >= 1 /\ applied[k] = hist.commits)
        => /\ Len(req.body.items) = 1
           /\ req.body.items[1].id = k[1]
           /\ req.body.items[1].total = applied[k]
           /\ req.body.items[1].ranking = 1

\* the last n items of a listing
LastItems(l, n) == SubSeq(l, Len(l) - n + 1, Len(l))

\* C23: a request for a page past total_pages is answered, through one
\* second request and no more, with the last page of the listing: the
\* items from (total_pages - 1) * page_size + 1 to the end, never an empty
\* page when the listing has items.
C23_PagePastTheEndGivesLastPage ==
    (req.nreq >= 2 /\ req.pc \in {"received", "done"}) =>
        /\ req.nreq = 2
        /\ ~PageMissing(req.body, req.page)
        /\ req.body.total_pages >= 1 =>
              /\ req.body.page = req.body.total_pages - 1
              /\ req.body.items # <<>>
              /\ \E l \in Leaderboard(req.variant) :
                    req.body.items
                      = LastItems(l, Len(l) - (req.body.total_pages - 1) * req.body.page_size)

\* page 4 of a listing of three pages was asked for: the third page is returned
C23_Witness ==
    /\ req.pc = "done" /\ req.nreq = 2
    /\ req.body.total_pages = 3 /\ req.body.page = 2
    /\ Len(req.body.items) = 1 /\ req.body.items[1].ranking = 3

\* a pagination string that is negative or not numeric
Invalid(str) == ~isNumeric(str) \/ Number(str) < 0

\* C24 (as claimed): a request whose page or limit is negative or non-numeric
\* is answered with a page of results, and the invalid value is not passed
\* on: an invalid limit is replaced by the default page size and an invalid
\* page by the first page.
C24_InvalidInputReplacedByDefaults ==
    (req.nreq = 1 /\ req.pc \in {"sent", "received", "done"}) =>
        /\ Invalid(req.limit) =>
              /\ req.url.limit = Undef
              /\ req.pc # "sent" => req.body.page_size = DefaultLimit
        /\ Invalid(req.page) =>
              /\ req.url.page \in {Undef, String(0)}
              /\ req.pc # "sent" => (req.body.page = 0 /\ ~PageMissing(req.body, req.page))

\* C25 (as claimed): no failure of the profile service during a query
\* reaches the caller of the query: the query returns, and returns an item
\* for every ranked name.
C25_ProfileFailureNeverSurfaces ==
    \A p \in Queriers :
        /\ qry[p].pc # "raised"
        /\ qry[p].pc = "done" => {item.of : item \in qry[p].result} = Names

(***************************************************************************)
(* Referential integrity (RemoveSpec).                                     *)
(***************************************************************************)
\* C26 (as claimed): every channel row has a chatter row with its id, and
\* the removal of a chatter is never rejected and leaves no orphan: the
\* channel row and the score rows that reference either are removed too.
C26_RemovalCascades ==
    /\ DOMAIN channel \subseteq DOMAIN chatter
    /\ \A k \in DOMAIN score : k[1] \in DOMAIN chatter /\ k[2] \in DOMAIN channel
    /\ ~hist.rejected

EventsReconcile ==
    /\ Len(score_event) = hist.commits
    /\ \A k \in Pairs : SumPoints(score_event, {k[1]}, {k[2]}) = ScoreOf(k[1], k[2])

\* C29: the event log is append-only and has one event per committed
\* recordMention call: a step either leaves the log as it is or appends one
\* event to it, and in every state the points of the events of a pair add
\* up to the score of that pair.
C29_EventLogReconciles ==
    /\ EventsReconcile
    /\ [][/\ Len(score_event') \in {Len(score_event), Len(score_event) + 1}
          /\ SubSeq(score_event', 1, Len(score_event)) = score_event
          /\ (Len(score_event') = Len(score_event) + 1) <=> (hist'.commits = hist.commits + 1)
          /\ EventsReconcile']_vars

\* two events of different points for one pair, and a call that failed after
\* its event statement
C29_Witness ==
    /\ Len(score_event) = 2
    /\ score_event[1].chatter_id = score_event[2].chatter_id
    /\ score_event[1].channel_id = score_event[2].channel_id
    /\ score_event[1].points # score_event[2].points
    /\ ScoreOf(score_event[1].chatter_id, score_event[1].channel_id) = 3

(***************************************************************************)
(* Top-N truncation of the sub-scores (RowsSpec).                          *)
(***************************************************************************)
\* C30 (as claimed): when an entry with M sub-scores is rendered with its top
\* N listed, the count shown for the others is M - N, the number of
\* sub-scores not listed, and 0 when M <= N.
C30_OthersIsTheUnlistedCount ==
    entryRows.out.pc = "rendered" => entryRows.out.others = entryRows.out.m - entryRows.out.listed

(***************************************************************************)
(* Order of the two passes of the migrator (MigrateSpec).                  *)
(***************************************************************************)
\* the score rows the legacy leaderboards name, under the resolved ids
LegacyScoreKeys ==
    {<<ResolveId(x), ResolveId(h)>> : x \in LegacyUsers, h \in LegacyChannels} \cap
    UNION {{<<ResolveId(x), ResolveId(h)>> : h \in DOMAIN LegacyLeaderboard(x)} : x \in LegacyUsers}

\* C31: the chatter pass runs only once every channel item has written its
\* lookup key and its Channel row, so every Score row of the migrator has the
\* resolved id of a channel a legacy leaderboard names and refers to a
\* Channel row that exists.
C31_ScoreRowsReferResolvedChannels ==
    /\ mig.pc = "chatters" => \A x \in LegacyChannels : x \in mig.chanId /\ Has(channel, ResolveId(x))
    /\ \A k \in DOMAIN score : k \in LegacyScoreKeys /\ Has(channel, k[2])

C31_Witness ==
    /\ mig.pc = "chatters"
    /\ mig.runs = 0
    /\ \E k \in DOMAIN score : k[2] = ResolveId("cat") /\ Has(channel, k[2])

(***************************************************************************)
(* What an upsert of the migrator leaves alone (RerunSpec).                *)
(***************************************************************************)
\* the created_at of every row and the flag of every chatter row
Stamps(ch, cn, sc) ==
    [chatter |-> [c \in DOMAIN ch |-> <<ch[c].created_at, ch[c].private>>],
     channel |-> [h \in DOMAIN cn |-> cn[h].created_at],
     score |-> [k \in DOMAIN sc |-> sc[k].created_at]]

\* g has every row of f, with the same created_at and flag
KeepsStamps(f, g) ==
    \A t \in DOMAIN f : \A r \in DOMAIN f[t] : r \in DOMAIN g[t] /\ g[t][r] = f[t][r]

C33_ChannelPassKeepsChatterTotals ==
    [][(mig.pc = "channels" /\ mig' # mig) =>
          /\ \A c \in DOMAIN chatter : Has(chatter', c) /\ chatter'[c].total = chatter[c].total
          /\ \A x \in LegacyChannels :
                (mig.cstep[x] = 1 /\ mig'.cstep[x] = 2) =>
                    channel'[ResolveId(x)].channel_total = LegacyChannelTotal(x)]_vars

C33_Witness ==
    /\ mig.runs = 1
    /\ mig.pc = "channels"
    /\ mig.cstep["bob"] = 2
    /\ chatter[ResolveId("bob")].total = LegacyUserTotal("bob")
    /\ channel[ResolveId("bob")].channel_total = LegacyChannelTotal("bob")

(***************************************************************************)
(* The cache after a failed refresh (RetrySpec).                           *)
(***************************************************************************)
\* C34: a refresh that fails leaves the last-refresh time and the set as they
\* were, the caller's next call issues a fetch again, and an exists() call
\* that returns answers from the set the last successful fetch delivered.
C34_FailedRefreshLeavesCacheStale ==
    [][LET p == "r1" IN
        /\ (InFlight(p) /\ call'[p].failed)
              => lastRefresh' = lastRefresh /\ cache_data' = cache_data
        /\ (Callable(p) /\ call[p].failed /\ call'[p].pc \in {"settled", "fetching"})
              => call'[p].pc = "fetching"
        /\ (call[p].pc = "settled" /\ call'[p].pc = "returned" /\ call[p].op = "exists")
              => call'[p].result = (call[p].name \in lastGood)]_vars

\* a refresh has failed on a cache that held a fetched set and was stale again
C34_Witness ==
    /\ Callable("r1") /\ call["r1"].failed
    /\ ~lastRefresh.isNull /\ ttlElapsed
    /\ cache_data # {}

(***************************************************************************)
(* Redacted chatters and the profile service (EnrichSpec).                 *)
(***************************************************************************)
\* C35: no request of a leaderboard query to the profile service, batched
\* (getUserData) or individual (getChannelImage), names a chatter whose
\* redact flag was set when the query began.
C35_NoRequestForRedacted ==
    \A p \in Queriers : qry[p].pc = "fetching" => qry[p].needs \cap qry[p].redacted0 = {}

\* queries of both kinds have a request out while a chatter is redacted
C35_Witness ==
    \E p \in Queriers, o \in Queriers :
        /\ qry[p].pc = "fetching" /\ qry[p].kind = "user"
        /\ qry[o].pc = "fetching" /\ qry[o].kind = "channel"
        /\ qry[p].redacted0 # {} /\ qry[o].redacted0 # {}

(***************************************************************************)
(* Two getUserData calls over one identity (ConcurrentSpec).               *)
(***************************************************************************)
\* C36 (as claimed): of two getUserData calls that run together over an
\* identity without a stored image and without the prev_helix_fetch flag, at
\* most one submits the identity to the profile service.
C36_AtMostOneCallSubmits ==
    \A x \in Names :
        ~(/\ qry["q1"].pc = "fetching" /\ x \in qry["q1"].needs
          /\ qry["q2"].pc = "fetching" /\ x \in qry["q2"].needs)

(***************************************************************************)
(* The fallback of fetchLeaderboard for a page that does not exist         *)
(* (FallbackSpec).                                                         *)
(***************************************************************************)
\* C37: a call whose page is above total_pages makes one more request, with
\* page = total_pages, and returns on its answer; no call makes more than two
\* requests, total_pages = 0 included, and every call returns.
C37_FallbackTerminates ==
    /\ [](req.nreq <= 2)
    /\ [][req.pc = "received" =>
            IF req.nreq = 1 /\ isNumeric(req.page) /\ Number(req.page) > req.body.total_pages
            THEN /\ req'.pc = "sent"
                 /\ req'.nreq = 2
                 /\ req'.page = String(req.body.total_pages)
            ELSE req'.pc = "done" /\ req'.nreq = req.nreq]_vars
    /\ (req.pc = "sent" ~> req.pc = "done")

\* a call for a page of an empty leaderboard has returned after its second request
C37_Witness ==
    /\ req.pc = "done"
    /\ req.nreq = 2
    /\ req.body.total_pages = 0
    /\ req.page = "0"

(***************************************************************************)
(* The rank of one entity and the rankings of the views (BoardSpec).       *)
(***************************************************************************)
\* C38 (as claimed): for every chatter, get_chatter_rank gives the ranking
\* chatter_leaderboard lists the chatter with, and for every channel
\* get_channel_rank gives the ranking of channel_leaderboard, whatever the
\* totals and created_at values, ties included.
C38_RankFunctionsAgreeWithViews ==
    /\ \A l \in chatter_leaderboard : \A i \in DOMAIN l :
          get_chatter_rank(l[i].id) = RankOf(l[i].ranking)
    /\ \A l \in channel_leaderboard : \A i \in DOMAIN l :
          get_channel_rank(l[i].id) = RankOf(l[i].ranking)

(***************************************************************************)
(* ClientLogger.flush (LoggerSpec).                                        *)
(***************************************************************************)
\* C39 (as claimed): a flush() that took entries and whose every send failed
\* has made at most maxRetries + 1 sends when its sends are over, and the
\* call has then settled, its entries discarded: it does not stay pending.
C39_FlushSettlesAfterRetries ==
    \A f \in Flushes :
        (/\ logger.flush[f].pc = "ended"
         /\ logger.flush[f].taken > 0
         /\ logger.flush[f].fails = logger.flush[f].sends)
            => /\ logger.flush[f].sends <= maxRetries + 1
               /\ logger.flush[f].settled

====
